---- MODULE Spec2Model ----
(***************************************************************************)
(* redoxfs mount launcher (src/bin/mount.rs): argument parsing, the        *)
(* pipe + fork handshake between the launching parent and the daemon, and  *)
(* the daemon's loop over candidate disks.                                 *)
(***************************************************************************)
EXTENDS Integers, Sequences, FiniteSets, TLC

\* ------------------------------------------------------------------ bounds
NumPaths == 2      \* disk paths that exist in the environment
NumUuids == 2      \* distinct filesystem UUIDs
MaxArgs  == 3      \* longest command line (tokens after the program name)

Paths == 1..NumPaths
Uuids == 1..NumUuids

\* ------------------------------------------------------- command line tokens
\* A token is a string; the model keeps the four shapes the program tells
\* apart: the literal "--uuid", a well-formed UUID text, a disk path, and
\* any other text.
Flag        == [t |-> "flag", n |-> 0]
BadTok      == [t |-> "text", n |-> 0]
UuidTok(u)  == [t |-> "uuid", n |-> u]
PathTok(p)  == [t |-> "path", n |-> p]
Tokens      == {Flag, BadTok} \cup {UuidTok(u) : u \in Uuids}
                              \cup {PathTok(p) : p \in Paths}

SeqsUpTo(S, n) == UNION {[1..k -> S] : k \in 0..n}
ArgLists == SeqsUpTo(Tokens, MaxArgs)

\* Uuid::parse_str: succeeds exactly on well-formed UUID text.
parse_str(tok) ==
    IF tok.t = "uuid" THEN [ok |-> TRUE, uuid |-> tok.n]
                      ELSE [ok |-> FALSE, uuid |-> 0]

\* enum DiskId { Path(String), Uuid(Uuid) }; NoDiskId before parsing.
NoDiskId    == [tag |-> "None", path |-> BadTok, uuid |-> 0]
DiskIdPath(tok) == [tag |-> "Path", path |-> tok, uuid |-> 0]
DiskIdUuid(u)   == [tag |-> "Uuid", path |-> BadTok, uuid |-> u]

\* main, lines 161-199: the result of consuming the command line.
\* usage = TRUE is process::exit(1) after usage().
UsageExit(msg) == [usage |-> TRUE, msg |-> msg, disk_id |-> NoDiskId, used |-> 0]
Parsed(d, k)   == [usage |-> FALSE, msg |-> "", disk_id |-> d, used |-> k]

\* ParseMountpoint without the None arm of lines 194-198.
ParseMountpointOptional(a, d, k) == Parsed(d, k)

\* main, lines 192-199: the token after the selector is the mountpoint.
ParseMountpoint(a, d, k) ==
    IF Len(a) >= k THEN Parsed(d, k)
                   ELSE UsageExit("no mountpoint provided")

ParseArgs(a) ==
    IF Len(a) = 0 THEN UsageExit("no disk provided")
    ELSE IF a[1] = Flag
         THEN IF Len(a) < 2 THEN UsageExit("no uuid provided")
              ELSE IF parse_str(a[2]).ok
                   THEN ParseMountpoint(a, DiskIdUuid(parse_str(a[2]).uuid), 3)
                   ELSE UsageExit("invalid uuid")
         ELSE ParseMountpoint(a, DiskIdPath(a[1]), 2)

\* ------------------------------------------------------------ environment
\* What DiskFile::open / FileSystem::open find at a path.
NoImage  == [opens |-> FALSE, fs |-> FALSE, uuid |-> 0]
NoFs     == [opens |-> TRUE,  fs |-> FALSE, uuid |-> 0]
Fs(u)    == [opens |-> TRUE,  fs |-> TRUE,  uuid |-> u]
Images   == {NoImage, NoFs} \cup {Fs(u) : u \in Uuids}

Platforms == {"redox", "other"}

\* Scheme namespaces listed by read_dir(":") on Redox.
SchemeNames == <<"disk0", "disk1", "null">>
Schemes     == {SchemeNames[i] : i \in 1..3}
SchemeOf(p) == SchemeNames[((p - 1) % 3) + 1]
PathsOf(s)  == {p \in Paths : SchemeOf(p) = s}
starts_with_disk(s) == s \in {"disk0", "disk1"}

DistinctSeqs(S) ==
    {q \in SeqsUpTo(S, Cardinality(S)) :
        \A i, j \in 1..Len(q) : i # j => q[i] # q[j]}

\* Result of one read_dir call: Err, or Ok with the entries in listing order.
DirErr       == [ok |-> FALSE, entries |-> <<>>]
DirOk(q)     == [ok |-> TRUE, entries |-> q]
RootListings == {DirErr} \cup {DirOk(q) : q \in DistinctSeqs(Schemes)}
DirListings(s) ==
    {DirErr} \cup {DirOk([i \in 1..Len(q) |-> PathTok(q[i])]) :
                      q \in DistinctSeqs(PathsOf(s))}
AllDirs == {d \in [Schemes -> UNION {DirListings(s) : s \in Schemes}] :
               \A s \in Schemes : d[s] \in DirListings(s)}

RECURSIVE ConcatDirs(_, _)
ConcatDirs(schemes, dirs) ==
    IF schemes = <<>> THEN <<>>
    ELSE (IF dirs[Head(schemes)].ok THEN dirs[Head(schemes)].entries ELSE <<>>)
         \o ConcatDirs(Tail(schemes), dirs)

\* disk_paths with the Redox body compiled on every platform.
disk_pathsAnyPlatform(plat, root, dirs) ==
    LET schemes == IF root.ok
                   THEN SelectSeq(root.entries, starts_with_disk)
                   ELSE <<>>
    IN ConcatDirs(schemes, dirs)

\* disk_paths, lines 51-91: appends the enumerated candidates to paths.
disk_paths(plat, root, dirs) ==
    IF plat # "redox" THEN <<>>
    ELSE LET schemes == IF root.ok
                        THEN SelectSeq(root.entries, starts_with_disk)
                        ELSE <<>>
         IN ConcatDirs(schemes, dirs)

ImageAt(image, tok) == IF tok.t = "path" THEN image[tok.n] ELSE NoImage

\* ------------------------------------------------------------------ state
VARIABLES
    args,        \* main: the argument iterator (tokens not yet consumed)
    disk_id,     \* main: the parsed selector
    ppc,         \* parent: position in main
    parentExit,  \* parent: exit code, -1 while running
    res,         \* parent: the one-byte read buffer, res[0]
    nread,       \* parent: bytes returned by read, -1 before the read
    platform,    \* build target of disk_paths
    image,       \* environment: what lies at each disk path
    pipeCreated, \* pipe() has succeeded
    rdP, wrP,    \* parent's copies of the pipe ends are open
    rdD, wrD,    \* daemon's copies of the pipe ends are open
    buf,         \* bytes in the pipe, written and not yet read
    written,     \* every byte the daemon has put into the pipe, in order
    dpc,         \* daemon: position in daemon()
    daemonExit,  \* daemon: exit code, -1 while running
    paths,       \* daemon: the candidate list
    uuid_opt,    \* daemon: target uuid, 0 for None
    idx,         \* daemon: position of the for loop in paths
    mounts,      \* candidates on which mount() has been invoked, in order
    enumerated,  \* disk_paths has been called
    attempts,    \* candidates on which DiskFile::open has been called, in order
    out,         \* main: the usage error printed, "" if none
    pipeRet,     \* main: what pipe() returned, -2 before the call
    pid,         \* main: what fork() returned in the parent, -2 before the call
    mountRet     \* daemon: what the last mount() call returned, "none" until
                 \* it returns

vars == <<args, disk_id, ppc, parentExit, res, nread, platform, image,
          pipeCreated, rdP, wrP, rdD, wrD, buf, written, dpc, daemonExit,
          paths, uuid_opt, idx, mounts, enumerated, attempts, out, pipeRet,
          pid, mountRet>>

parentVars == <<args, disk_id, ppc, parentExit, res, nread, out, pipeRet, pid>>
envVars    == <<platform, image>>
daemonVars == <<dpc, daemonExit, paths, uuid_opt, idx, mounts, enumerated,
                attempts, mountRet>>

PANIC == 101   \* exit status of a Rust panic

Init ==
    /\ args \in ArgLists
    /\ disk_id = NoDiskId
    /\ ppc = "parse"
    /\ parentExit = -1
    /\ res = 0
    /\ nread = -1
    /\ platform \in Platforms
    /\ image \in [Paths -> Images]
    /\ pipeCreated = FALSE
    /\ rdP = FALSE /\ wrP = FALSE /\ rdD = FALSE /\ wrD = FALSE
    /\ buf = <<>>
    /\ written = <<>>
    /\ dpc = "none"
    /\ daemonExit = -1
    /\ paths = <<>>
    /\ uuid_opt = 0
    /\ idx = 0
    /\ mounts = <<>>
    /\ enumerated = FALSE
    /\ attempts = <<>>
    /\ out = ""
    /\ pipeRet = -2
    /\ pid = -2
    /\ mountRet = "none"

\* ------------------------------------------------------------------ parent
\* main, lines 161-199: parse the command line; a usage error exits with 1.
\* The tokens after the mountpoint are never read.
MainParse ==
    /\ ppc = "parse"
    /\ LET r == ParseArgs(args) IN
        /\ args' = <<>>
        /\ IF r.usage
           THEN /\ ppc' = "usage_exit"
                /\ parentExit' = 1
                /\ disk_id' = disk_id
           ELSE /\ ppc' = "pipe"
                /\ parentExit' = parentExit
                /\ disk_id' = r.disk_id
        /\ out' = r.msg
    /\ UNCHANGED <<res, nread, pipeRet, pid, pipeCreated, rdP, wrP, rdD, wrD, buf, written>>
    /\ UNCHANGED <<envVars, daemonVars>>

\* main, lines 201-204 and 221-223: pipe() returns 0, or the process panics.
MainPipe ==
    /\ ppc = "pipe"
    /\ \E ok \in BOOLEAN :
        IF ok
        THEN /\ pipeRet' = 0
             /\ pipeCreated' = TRUE
             /\ rdP' = TRUE /\ wrP' = TRUE
             /\ ppc' = "fork"
             /\ parentExit' = parentExit
        ELSE /\ pipeRet' = -1
             /\ ppc' = "panicked"
             /\ parentExit' = PANIC
             /\ UNCHANGED <<pipeCreated, rdP, wrP>>
    /\ UNCHANGED <<args, disk_id, res, nread, out, pid, rdD, wrD, buf, written>>
    /\ UNCHANGED <<envVars, daemonVars>>

\* MainFork testing pid != 0 instead of pid > 0: a failed fork falls into
\* the parent branch.
MainForkNoFailureArm ==
    /\ ppc = "fork"
    /\ \E ok \in BOOLEAN :
        /\ pid' = IF ok THEN 1 ELSE -1
        /\ IF ok
           THEN /\ dpc' = "forked"
                /\ rdD' = TRUE /\ wrD' = TRUE
           ELSE UNCHANGED <<dpc, rdD, wrD>>
        /\ ppc' = "drop_write"
        /\ UNCHANGED <<parentExit, rdP, wrP>>
    /\ UNCHANGED <<args, disk_id, res, nread, out, pipeRet, pipeCreated, buf,
                   written>>
    /\ UNCHANGED <<envVars, daemonExit, paths, uuid_opt, idx, mounts, enumerated,
                   attempts, mountRet>>

\* main, lines 206-220: fork() gives the child copies of both pipe ends, or
\* fails and the process panics (dropping both ends).
MainFork ==
    /\ ppc = "fork"
    /\ \E ok \in BOOLEAN :
        IF ok
        THEN /\ pid' = 1
             /\ dpc' = "forked"
             /\ rdD' = TRUE /\ wrD' = TRUE
             /\ ppc' = "drop_write"
             /\ UNCHANGED <<parentExit, rdP, wrP>>
        ELSE /\ pid' = -1
             /\ ppc' = "panicked"
             /\ parentExit' = PANIC
             /\ rdP' = FALSE /\ wrP' = FALSE
             /\ UNCHANGED <<dpc, rdD, wrD>>
    /\ UNCHANGED <<args, disk_id, res, nread, out, pipeRet, pipeCreated, buf,
                   written>>
    /\ UNCHANGED <<envVars, daemonExit, paths, uuid_opt, idx, mounts, enumerated,
                   attempts, mountRet>>

\* ParentDropWrite without the drop: the parent keeps its write end open
\* while it reads.
ParentKeepsWrite ==
    /\ ppc = "drop_write"
    /\ wrP' = wrP
    /\ ppc' = "read"
    /\ UNCHANGED <<args, disk_id, parentExit, res, nread, out, pipeRet, pid,
                   pipeCreated, rdP, rdD, wrD, buf, written>>
    /\ UNCHANGED <<envVars, daemonVars>>

\* main, line 212: drop(write).
ParentDropWrite ==
    /\ ppc = "drop_write"
    /\ wrP' = FALSE
    /\ ppc' = "read"
    /\ UNCHANGED <<args, disk_id, parentExit, res, nread, out, pipeRet, pid,
                   pipeCreated, rdP, rdD, wrD, buf, written>>
    /\ UNCHANGED <<envVars, daemonVars>>

\* ParentRead on a non-blocking descriptor: with an empty pipe the read
\* returns at once with no byte, whether or not a write end is open.
ParentReadNonBlocking ==
    /\ ppc = "read"
    /\ \/ /\ Len(buf) > 0
          /\ res' = Head(buf)
          /\ nread' = 1
          /\ buf' = Tail(buf)
       \/ /\ Len(buf) = 0
          /\ res' = res
          /\ nread' = 0
          /\ buf' = buf
    /\ parentExit' = res'
    /\ ppc' = "exited"
    /\ rdP' = FALSE
    /\ UNCHANGED <<args, disk_id, out, pipeRet, pid, pipeCreated, wrP, rdD,
                   wrD, written>>
    /\ UNCHANGED <<envVars, daemonVars>>

\* main, lines 214-217: one blocking read of one byte, then exit(res[0]).
\* The read returns a byte when the pipe holds one, and 0 bytes (end of
\* file, res untouched) once the pipe is empty and no write end is open.
ParentRead ==
    /\ ppc = "read"
    /\ \/ /\ Len(buf) > 0
          /\ res' = Head(buf)
          /\ nread' = 1
          /\ buf' = Tail(buf)
       \/ /\ Len(buf) = 0
          /\ ~wrP /\ ~wrD
          /\ res' = res
          /\ nread' = 0
          /\ buf' = buf
    /\ parentExit' = res'
    /\ ppc' = "exited"
    /\ rdP' = FALSE
    /\ UNCHANGED <<args, disk_id, out, pipeRet, pid, pipeCreated, wrP, rdD,
                   wrD, written>>
    /\ UNCHANGED <<envVars, daemonVars>>

\* ------------------------------------------------------------------ daemon
ReadyByte  == 0    \* written by the readiness callback
FailByte   == 1    \* written when the candidate list is exhausted

\* File::write of one byte on the pipe: the byte enters the pipe while a
\* read end is open; otherwise the call fails and the error is discarded
\* (let _ = ...).
PipeWrite(q, b, readable) == IF readable THEN Append(q, b) ELSE q

\* The behaviour of the external redoxfs::mount: once called it either
\* returns Err, or attaches and invokes the readiness callback; once
\* attached it serves until it returns Ok (unmount) or Err.
mount(phase) ==
    IF phase = "mounting" THEN {"ready", "err"}
    ELSE IF phase = "serving" THEN {"ok", "err"}
    ELSE {}

\* matches with the comparison of line 116 left out.
matchesAlways(target, header_uuid) == TRUE

\* daemon, lines 115-125: does the opened filesystem satisfy the selector?
matches(target, header_uuid) ==
    IF target # 0 THEN header_uuid = target ELSE TRUE

\* process::exit(code) in the daemon: the process ends, its descriptors close.
DaemonExitWith(code) ==
    /\ dpc' = "exited"
    /\ daemonExit' = code
    /\ rdD' = FALSE
    /\ wrD' = FALSE

\* main, line 208: drop(read) in the child.
DaemonDropRead ==
    /\ dpc = "forked"
    /\ rdD' = FALSE
    /\ dpc' = "setup"
    /\ UNCHANGED <<parentVars, envVars, pipeCreated, rdP, wrP, wrD, buf, written>>
    /\ UNCHANGED <<daemonExit, paths, uuid_opt, idx, mounts, enumerated, attempts, mountRet>>

\* DaemonSetup calling disk_paths for a path selector as well.
DaemonSetupAlwaysEnumerates ==
    /\ dpc = "setup"
    /\ \E root \in RootListings, dirs \in AllDirs :
          paths' = (IF disk_id.tag = "Path" THEN <<disk_id.path>> ELSE <<>>)
                   \o disk_paths(platform, root, dirs)
    /\ uuid_opt' = IF disk_id.tag = "Uuid" THEN disk_id.uuid ELSE 0
    /\ enumerated' = TRUE
    /\ idx' = 1
    /\ dpc' = "loop"
    /\ UNCHANGED <<parentVars, envVars, pipeCreated, rdP, wrP, rdD, wrD, buf, written>>
    /\ UNCHANGED <<daemonExit, mounts, attempts, mountRet>>

\* daemon, lines 94-105: build the candidate list from the selector.
DaemonSetup ==
    /\ dpc = "setup"
    /\ \/ /\ disk_id.tag = "Path"
          /\ paths' = <<disk_id.path>>
          /\ uuid_opt' = 0
          /\ enumerated' = enumerated
       \/ /\ disk_id.tag = "Uuid"
          /\ \E root \in RootListings, dirs \in AllDirs :
                paths' = disk_paths(platform, root, dirs)
          /\ uuid_opt' = disk_id.uuid
          /\ enumerated' = TRUE
    /\ idx' = 1
    /\ dpc' = "loop"
    /\ UNCHANGED <<parentVars, envVars, pipeCreated, rdP, wrP, rdD, wrD, buf, written>>
    /\ UNCHANGED <<daemonExit, mounts, attempts, mountRet>>

\* DaemonOpen without the Err arm of line 141: a disk that opens goes on
\* to the uuid check whether or not a filesystem was found on it.
DaemonOpenIgnoresFsError ==
    /\ dpc = "loop"
    /\ idx <= Len(paths)
    /\ LET img == ImageAt(image, paths[idx]) IN
        IF img.opens
        THEN /\ dpc' = "opened"
             /\ idx' = idx
        ELSE /\ dpc' = "loop"
             /\ idx' = idx + 1
    /\ attempts' = Append(attempts, paths[idx])
    /\ UNCHANGED <<parentVars, envVars, pipeCreated, rdP, wrP, rdD, wrD, buf, written>>
    /\ UNCHANGED <<daemonExit, paths, uuid_opt, mounts, enumerated, mountRet>>

\* daemon, lines 107-111, 141, 143: open the disk and the filesystem of the
\* next candidate; either failure is logged and the loop moves on.
DaemonOpen ==
    /\ dpc = "loop"
    /\ idx <= Len(paths)
    /\ LET img == ImageAt(image, paths[idx]) IN
        IF img.opens /\ img.fs
        THEN /\ dpc' = "opened"
             /\ idx' = idx
        ELSE /\ dpc' = "loop"
             /\ idx' = idx + 1
    /\ attempts' = Append(attempts, paths[idx])
    /\ UNCHANGED <<parentVars, envVars, pipeCreated, rdP, wrP, rdD, wrD, buf, written>>
    /\ UNCHANGED <<daemonExit, paths, uuid_opt, mounts, enumerated, mountRet>>

\* DaemonMatch leaving the loop on a mismatch (break instead of falling
\* through to the next candidate).
DaemonMatchBreaksOnMismatch ==
    /\ dpc = "opened"
    /\ IF matches(uuid_opt, ImageAt(image, paths[idx]).uuid)
       THEN /\ dpc' = "mounting"
            /\ mounts' = Append(mounts, paths[idx])
            /\ mountRet' = "none"
            /\ idx' = idx
       ELSE /\ dpc' = "loop"
            /\ mounts' = mounts
            /\ mountRet' = mountRet
            /\ idx' = Len(paths) + 1
    /\ UNCHANGED <<parentVars, envVars, pipeCreated, rdP, wrP, rdD, wrD, buf, written>>
    /\ UNCHANGED <<daemonExit, paths, uuid_opt, enumerated, attempts>>

\* daemon, lines 115-128: compare the header uuid with the target; on a
\* match call mount(), otherwise move to the next candidate.
DaemonMatch ==
    /\ dpc = "opened"
    /\ IF matches(uuid_opt, ImageAt(image, paths[idx]).uuid)
       THEN /\ dpc' = "mounting"
            /\ mounts' = Append(mounts, paths[idx])
            /\ mountRet' = "none"
            /\ idx' = idx
       ELSE /\ dpc' = "loop"
            /\ mounts' = mounts
            /\ mountRet' = mountRet
            /\ idx' = idx + 1
    /\ UNCHANGED <<parentVars, envVars, pipeCreated, rdP, wrP, rdD, wrD, buf, written>>
    /\ UNCHANGED <<daemonExit, paths, uuid_opt, enumerated, attempts>>

\* MountReady when a write to a pipe without reader raises SIGPIPE with
\* its default action: the daemon is killed by the signal.
MountReadySigpipe ==
    /\ "ready" \in mount(dpc)
    /\ buf' = PipeWrite(buf, ReadyByte, rdP \/ rdD)
    /\ written' = PipeWrite(written, ReadyByte, rdP \/ rdD)
    /\ IF rdP \/ rdD
       THEN /\ dpc' = "serving"
            /\ UNCHANGED <<daemonExit, rdD, wrD>>
       ELSE /\ dpc' = "aborted"
            /\ daemonExit' = 141
            /\ rdD' = FALSE /\ wrD' = FALSE
    /\ UNCHANGED <<parentVars, envVars, pipeCreated, rdP, wrP>>
    /\ UNCHANGED <<paths, uuid_opt, idx, mounts, enumerated, attempts, mountRet>>

\* MountReady with a callback that only logs (line 130 left out).
MountReadyNoWrite ==
    /\ "ready" \in mount(dpc)
    /\ dpc' = "serving"
    /\ UNCHANGED <<parentVars, envVars, pipeCreated, rdP, wrP, rdD, wrD, buf, written>>
    /\ UNCHANGED <<daemonExit, paths, uuid_opt, idx, mounts, enumerated, attempts, mountRet>>

\* daemon, lines 128-131: the readiness callback writes byte 0; mount()
\* goes on to serve the filesystem.
MountReady ==
    /\ "ready" \in mount(dpc)
    /\ buf' = PipeWrite(buf, ReadyByte, rdP \/ rdD)
    /\ written' = PipeWrite(written, ReadyByte, rdP \/ rdD)
    /\ dpc' = "serving"
    /\ UNCHANGED <<parentVars, envVars, pipeCreated, rdP, wrP, rdD, wrD>>
    /\ UNCHANGED <<daemonExit, paths, uuid_opt, idx, mounts, enumerated, attempts, mountRet>>

\* MountOk without the process::exit(0) of line 133: the loop goes on as
\* after an error.
MountOkContinues ==
    /\ "ok" \in mount(dpc)
    /\ mountRet' = "Ok"
    /\ dpc' = "loop"
    /\ idx' = idx + 1
    /\ UNCHANGED <<parentVars, envVars, pipeCreated, rdP, wrP, rdD, wrD, buf, written>>
    /\ UNCHANGED <<daemonExit, paths, uuid_opt, mounts, enumerated, attempts>>

\* daemon, lines 132-134: mount() returned Ok(()): process::exit(0).
MountOk ==
    /\ "ok" \in mount(dpc)
    /\ mountRet' = "Ok"
    /\ DaemonExitWith(0)
    /\ UNCHANGED <<parentVars, envVars, pipeCreated, rdP, wrP, buf, written>>
    /\ UNCHANGED <<paths, uuid_opt, idx, mounts, enumerated, attempts>>

\* MountErr with the failed candidate tried again (idx not advanced).
MountErrRetries ==
    /\ "err" \in mount(dpc)
    /\ mountRet' = "Err"
    /\ dpc' = "loop"
    /\ idx' = idx
    /\ UNCHANGED <<parentVars, envVars, pipeCreated, rdP, wrP, rdD, wrD, buf, written>>
    /\ UNCHANGED <<daemonExit, paths, uuid_opt, mounts, enumerated, attempts>>

\* daemon, lines 135-137: mount() returned Err: log, next candidate.
MountErr ==
    /\ "err" \in mount(dpc)
    /\ mountRet' = "Err"
    /\ dpc' = "loop"
    /\ idx' = idx + 1
    /\ UNCHANGED <<parentVars, envVars, pipeCreated, rdP, wrP, rdD, wrD, buf, written>>
    /\ UNCHANGED <<daemonExit, paths, uuid_opt, mounts, enumerated, attempts>>

\* DaemonExhausted without the process::exit(1) of line 157: daemon()
\* returns to main after the write.
DaemonExhaustedReturns ==
    /\ dpc = "loop"
    /\ idx > Len(paths)
    /\ buf' = PipeWrite(buf, FailByte, rdP \/ rdD)
    /\ written' = PipeWrite(written, FailByte, rdP \/ rdD)
    /\ dpc' = "returned"
    /\ UNCHANGED <<parentVars, envVars, pipeCreated, rdP, wrP, rdD, wrD>>
    /\ UNCHANGED <<daemonExit, paths, uuid_opt, idx, mounts, enumerated, attempts, mountRet>>

\* DaemonExhausted with the write of line 156 left out.
DaemonExhaustedNoWrite ==
    /\ dpc = "loop"
    /\ idx > Len(paths)
    /\ DaemonExitWith(1)
    /\ UNCHANGED <<parentVars, envVars, pipeCreated, rdP, wrP, buf, written>>
    /\ UNCHANGED <<paths, uuid_opt, idx, mounts, enumerated, attempts, mountRet>>

\* daemon, lines 147-157: the list is exhausted: write byte 1, exit(1).
DaemonExhausted ==
    /\ dpc = "loop"
    /\ idx > Len(paths)
    /\ buf' = PipeWrite(buf, FailByte, rdP \/ rdD)
    /\ written' = PipeWrite(written, FailByte, rdP \/ rdD)
    /\ DaemonExitWith(1)
    /\ UNCHANGED <<parentVars, envVars, pipeCreated, rdP, wrP>>
    /\ UNCHANGED <<paths, uuid_opt, idx, mounts, enumerated, attempts, mountRet>>

\* The daemon ends abnormally before reaching process::exit: a println!
\* of the loop (lines 108-152) panics when standard output cannot be
\* written, and a panic inside the engine unwinds through daemon() the same
\* way.  The process ends with the panic status and its descriptors close.
DaemonAbort ==
    /\ dpc \in {"loop", "opened", "mounting", "serving"}
    /\ dpc' = "aborted"
    /\ daemonExit' = PANIC
    /\ rdD' = FALSE
    /\ wrD' = FALSE
    /\ UNCHANGED <<parentVars, envVars, pipeCreated, rdP, wrP, buf, written>>
    /\ UNCHANGED <<paths, uuid_opt, idx, mounts, enumerated, attempts, mountRet>>

\* ---------------------------------------------------------- specifications
Next ==
    \/ MainParse
    \/ MainPipe
    \/ MainFork
    \/ ParentDropWrite
    \/ ParentRead
    \/ DaemonDropRead
    \/ DaemonSetup
    \/ DaemonOpen
    \/ DaemonMatch
    \/ MountReady
    \/ MountOk
    \/ MountErr
    \/ DaemonExhausted

\* The program with every process running until it exits by itself.
Spec == Init /\ [][Next]_vars

NextCrash ==
    \/ Next
    \/ DaemonAbort

\* The program when the daemon may also end abnormally.
SpecCrash == Init /\ [][NextCrash]_vars

\* The parent process is scheduled: a step of main that stays possible is
\* eventually taken.  The daemon may stall or end abnormally.
SpecParentFair ==
    /\ SpecCrash
    /\ WF_vars(ParentDropWrite)
    /\ WF_vars(ParentRead)

\* The daemon process is scheduled: a step of its own code that stays
\* possible is eventually taken.  Nothing is assumed about the external
\* calls (DiskFile::open, FileSystem::open, mount), which may never return.
SpecDaemonFair ==
    /\ Spec
    /\ WF_vars(DaemonDropRead)
    /\ WF_vars(DaemonSetup)
    /\ WF_vars(DaemonMatch)
    /\ WF_vars(DaemonExhausted)

\* ------------------------------------------------------------------ claims
DaemonSpawned == dpc # "none"
DaemonExited  == dpc = "exited"      \* ended through process::exit
ParentReported == ppc = "exited"     \* ended through line 217

\* C1: over a whole run of the daemon exactly one byte is written to the
\* handshake channel: never two or more, and not zero once the daemon has
\* exited.
C1_ExactlyOneByte ==
    /\ Len(written) <= 1
    /\ DaemonExited => Len(written) = 1

\* C2: the parent's exit code equals the byte the daemon transmitted: the
\* parent reports a code only after its read received a byte that the
\* daemon wrote, and the code is that byte.
C2_ExitEqualsReceivedByte ==
    ParentReported =>
        /\ nread = 1
        /\ Len(written) >= 1
        /\ parentExit = written[1]

\* C3: when the channel is closed before any byte arrives, the parent ends
\* in a distinguishable failure: its exit code is neither 0 nor 1.
C3_ClosedChannelIsFatal ==
    (ppc = "exited" /\ nread = 0) => parentExit \notin {0, 1}

\* C4: whenever the daemon has terminated through one of its exit paths
\* (code 0 or 1), a byte has already been written to the channel.
C4_WriteBeforeExit ==
    (DaemonExited /\ daemonExit \in {0, 1}) => Len(written) >= 1

\* C4 witness: the daemon has exited with 0 after the callback's write.
C4_Witness ==
    DaemonExited /\ daemonExit = 0 /\ written = <<ReadyByte>>

\* Candidate i of the list opens as a disk and as a filesystem.
CandOpens(i) ==
    ImageAt(image, paths[i]).opens /\ ImageAt(image, paths[i]).fs
\* Candidate i carries the target uuid in its header.
CandHasTarget(i) == ImageAt(image, paths[i]).uuid = uuid_opt
\* The candidate list has been built (idx is 0 until then).
ListBuilt == idx >= 1
MatchingCands == {i \in 1..Len(paths) : CandHasTarget(i)}

\* C5: with a uuid selector and N >= 1 candidates that all open, exactly
\* one of which carries the target uuid, mount is invoked on that candidate
\* and on no other, wherever it stands in the list: mount is never invoked
\* on another one, and it has been invoked on the matching one as soon as
\* the loop has reached it.
C5_MountsTheUniqueMatch ==
    ( /\ ListBuilt
      /\ disk_id.tag = "Uuid"
      /\ Len(paths) >= 1
      /\ \A i \in 1..Len(paths) : CandOpens(i)
      /\ Cardinality(MatchingCands) = 1 )
    => LET m == CHOOSE i \in MatchingCands : TRUE IN
        /\ \A k \in 1..Len(mounts) : mounts[k] = paths[m]
        /\ Len(mounts) <= 1
        /\ (idx > m \/ (idx = m /\ dpc \in {"mounting", "serving", "exited"}))
              => mounts = <<paths[m]>>
        /\ DaemonExited => mounts = <<paths[m]>>

\* C5 witness: two candidates, the second one is the match and has been
\* mounted after the first was skipped.
C5_Witness ==
    /\ disk_id.tag = "Uuid"
    /\ Len(paths) = 2
    /\ CandOpens(1) /\ CandOpens(2)
    /\ ~CandHasTarget(1) /\ CandHasTarget(2)
    /\ attempts = paths
    /\ mounts = <<paths[2]>>
    /\ DaemonExited

\* No candidate both opens and (in uuid mode) carries the target uuid.
NoUsableCandidate ==
    \A i \in 1..Len(paths) :
        ~(CandOpens(i) /\ (uuid_opt = 0 \/ CandHasTarget(i)))

\* C6: if no candidate both opens and, in uuid mode, carries the target
\* uuid, then mount is never invoked, the daemon writes byte 1 and nothing
\* else and exits with 1, and the parent exits with 1.
C6_NoUsableCandidateFails ==
    (ListBuilt /\ NoUsableCandidate) =>
        /\ mounts = <<>>
        /\ dpc \in {"loop", "opened", "exited"}
        /\ written \in {<<>>, <<FailByte>>}
        /\ DaemonExited => (daemonExit = 1 /\ written = <<FailByte>>)
        /\ ParentReported => (parentExit = 1 /\ nread = 1)

\* C6 witness: uuid mode, two candidates that open but do not match; the
\* daemon has exited and the parent has reported.
C6_Witness ==
    /\ disk_id.tag = "Uuid"
    /\ Len(paths) = 2
    /\ CandOpens(1) /\ CandOpens(2)
    /\ NoUsableCandidate
    /\ attempts = paths
    /\ DaemonExited /\ daemonExit = 1
    /\ ParentReported /\ parentExit = 1

\* C7: with an empty candidate list (which is what a uuid selector yields
\* on a platform without enumeration) the daemon attempts no open and no
\* mount, writes byte 1 and exits with 1; while it has not exited, its exit
\* step is enabled, so it is not waiting for anything.
C7_EmptyListFails ==
    /\ (ListBuilt /\ disk_id.tag = "Uuid" /\ platform # "redox") => paths = <<>>
    /\ (ListBuilt /\ paths = <<>>) =>
        /\ attempts = <<>>
        /\ mounts = <<>>
        /\ dpc \in {"loop", "exited"}
        /\ dpc = "loop" => ENABLED DaemonExhausted
        /\ DaemonExited => (daemonExit = 1 /\ written = <<FailByte>>)

\* C7 witness: a uuid selector on a platform without enumeration ended with
\* byte 1 and exit code 1.
C7_Witness ==
    /\ disk_id.tag = "Uuid"
    /\ platform # "redox"
    /\ paths = <<>>
    /\ DaemonExited /\ daemonExit = 1
    /\ written = <<FailByte>>

\* The command lines that are usage errors: no arguments, --uuid with a
\* missing or malformed value, or no mountpoint.
UsageError(a) ==
    \/ Len(a) = 0
    \/ a[1] = Flag /\ (Len(a) < 2 \/ a[2].t # "uuid" \/ Len(a) < 3)
    \/ a[1] # Flag /\ Len(a) < 2

\* C8: every usage error ends the process with exit code 1 before the
\* channel is created and before any fork: the parse step on such a command
\* line exits with 1, and in a run that ended so there is no pipe, no
\* daemon and no byte written.
C8_UsageErrorExitsBeforeFork ==
    /\ [][(ppc = "parse" /\ UsageError(args)) =>
            (ppc' = "usage_exit" /\ parentExit' = 1 /\ out' # "")]_vars
    /\ [](ppc = "usage_exit" =>
            /\ parentExit = 1
            /\ ~pipeCreated /\ pipeRet = -2 /\ pid = -2
            /\ ~DaemonSpawned
            /\ written = <<>>)

\* C8 witness: a run that ended on a missing mountpoint.
C8_Witness ==
    /\ ppc = "usage_exit"
    /\ out = "no mountpoint provided"
    /\ parentExit = 1
    /\ ~pipeCreated /\ ~DaemonSpawned

\* C9: if pipe() or fork() fails the process aborts at once with a
\* non-zero status: no daemon exists, no read is attempted and no byte is
\* ever written.
C9_FatalErrorAborts ==
    (pipeRet = -1 \/ pid = -1) =>
        /\ ppc = "panicked"
        /\ parentExit # 0 /\ parentExit # -1
        /\ ~DaemonSpawned
        /\ ~enumerated /\ attempts = <<>> /\ mounts = <<>>
        /\ nread = -1
        /\ written = <<>>

\* C9 witness: the pipe was created and the fork failed.
C9_Witness ==
    pipeRet = 0 /\ pid = -1 /\ ppc = "panicked" /\ parentExit = PANIC

\* C10: with a path selector p the candidate list is exactly <<p>> on every
\* platform, and disk_paths is not called.
C10_PathSelectorSingleton ==
    (ListBuilt /\ disk_id.tag = "Path") =>
        (paths = <<disk_id.path>> /\ ~enumerated)

\* C10 witness: a path selector on the platform that can enumerate.
C10_Witness ==
    /\ ListBuilt
    /\ disk_id.tag = "Path"
    /\ platform = "redox"
    /\ paths = <<disk_id.path>>
    /\ attempts = paths

\* The parent is between fork() and the completion of its read.
ParentWaiting == ppc \in {"drop_write", "read"}
WriteEndOpen  == wrP \/ wrD

\* C11: the parent never observes an outcome before the daemon produces
\* it: while no byte has been written and a write end is open, the read
\* cannot complete, no step makes the parent exit (it stays blocked for as
\* long as the daemon stalls), and a parent that has exited with no byte
\* written did so only after every write end was closed.
C11_NoOutcomeBeforeWrite ==
    /\ []((ppc = "read" /\ written = <<>> /\ WriteEndOpen) => ~ENABLED ParentRead)
    /\ [][(ParentWaiting /\ written = <<>> /\ WriteEndOpen /\ written' = <<>>
             /\ WriteEndOpen') => (ParentWaiting' /\ parentExit' = -1)]_vars
    /\ []((ParentReported /\ written = <<>>) => ~WriteEndOpen)

\* C11 witness: the parent is blocked in its read while the daemon sits in
\* mount() before the callback, nothing written yet.
C11_Witness ==
    /\ ppc = "read"
    /\ dpc = "mounting"
    /\ written = <<>>
    /\ wrD /\ ~wrP
    /\ parentExit = -1

\* C12: when a mount call returns an error without its callback having
\* fired, the daemon goes on to the next candidate with zero bytes written
\* to the channel so far, and byte 1 is in the channel only once the list
\* is exhausted.
C12_EarlyMountErrorContinues ==
    /\ [][(dpc = "mounting" /\ mountRet' = "Err") =>
            (dpc' = "loop" /\ idx' = idx + 1 /\ written' = <<>>)]_vars
    /\ [](FailByte \in {written[k] : k \in 1..Len(written)} => idx > Len(paths))

\* Sequence q is a prefix of sequence r.
IsPrefix(q, r) == Len(q) <= Len(r) /\ \A k \in 1..Len(q) : q[k] = r[k]

\* C13: candidates are processed strictly in list order, each at most once:
\* the candidates opened so far are a prefix of the list without
\* repetition, the loop position never moves back, and a candidate that
\* has been opened is never opened again.
C13_InOrderAtMostOnce ==
    /\ [](/\ IsPrefix(attempts, paths)
          /\ \A i, j \in 1..Len(attempts) : i # j => attempts[i] # attempts[j]
          /\ ListBuilt => Len(attempts) \in {idx - 1, idx})
    /\ [][idx' >= idx /\ IsPrefix(attempts, attempts')]_vars

\* C13 witness: two candidates, the first failed to open, the second was
\* mounted and its mount failed; each was opened once, in order.
C13_Witness ==
    /\ Len(paths) = 2
    /\ ~CandOpens(1)
    /\ attempts = paths
    /\ mounts = <<paths[2]>>
    /\ mountRet = "Err"
    /\ DaemonExited

\* The header uuid found on a candidate path.
HeaderUuid(tok) == ImageAt(image, tok).uuid
BytesWritten == {written[k] : k \in 1..Len(written)}

\* C14: in uuid mode mount is never invoked on a filesystem whose header
\* uuid differs from the target, and a mismatch does not end the loop: the
\* step that finds it moves to the next candidate, which is then opened if
\* there is one.
C14_MismatchSkipsAndContinues ==
    /\ [](uuid_opt # 0 =>
            \A k \in 1..Len(mounts) : HeaderUuid(mounts[k]) = uuid_opt)
    /\ [][(dpc = "opened" /\ uuid_opt # 0 /\ HeaderUuid(paths[idx]) # uuid_opt)
            => \/ UNCHANGED daemonVars
               \/ (dpc' = "loop" /\ idx' = idx + 1 /\ mounts' = mounts)]_vars
    /\ []((dpc = "loop" /\ idx <= Len(paths)) => ENABLED DaemonOpen)

\* C14 witness: uuid mode, the first candidate mismatched and was skipped,
\* the second one matched and was mounted.
C14_Witness ==
    /\ uuid_opt # 0
    /\ Len(paths) = 2
    /\ CandOpens(1) /\ HeaderUuid(paths[1]) # uuid_opt
    /\ attempts = paths
    /\ mounts = <<paths[2]>>
    /\ dpc = "serving"

\* C15: once a mount call has returned normally the daemon has terminated
\* with exit code 0, in the same step: no candidate after the mounted one
\* is ever opened, byte 1 is never written, and nothing of the daemon
\* changes afterwards.
C15_CleanUnmountExitsZero ==
    /\ [](mountRet = "Ok" =>
            /\ DaemonExited /\ daemonExit = 0
            /\ attempts = SubSeq(paths, 1, idx)
            /\ mounts # <<>> /\ mounts[Len(mounts)] = paths[idx]
            /\ FailByte \notin BytesWritten)
    /\ [][mountRet = "Ok" => UNCHANGED <<daemonVars, written>>]_vars

\* C15 witness: the first of two usable candidates was mounted and
\* unmounted cleanly; the second was never opened.
C15_Witness ==
    /\ mountRet = "Ok"
    /\ Len(paths) = 2
    /\ CandOpens(2) /\ HeaderUuid(paths[2]) = uuid_opt
    /\ attempts = <<paths[1]>>
    /\ DaemonExited /\ daemonExit = 0
    /\ written = <<ReadyByte>>

\* C16: byte 0 is written only by the readiness callback, at the moment
\* mount() reports the filesystem attached; and whenever the callback has
\* fired while the parent is still waiting, the parent eventually exits
\* with code 0.
C16_ReadyByteOnlyFromCallback ==
    /\ [][(written' # written /\ written'[Len(written')] = ReadyByte)
            => (dpc = "mounting" /\ dpc' = "serving")]_vars
    /\ (dpc = "serving" /\ ParentWaiting) ~> (ParentReported /\ parentExit = 0)

\* C16 witness: the callback fired while the parent was waiting, and the
\* parent has exited with 0 while the daemon serves.
C16_Witness ==
    /\ dpc = "serving"
    /\ written = <<ReadyByte>>
    /\ ParentReported /\ parentExit = 0 /\ nread = 1

\* No read end of the channel is open any more.
ReadEndGone == ~rdP /\ ~rdD

\* C17: after the handshake the daemon is independent of the parent: the
\* step in which the parent exits changes nothing of the daemon; a daemon
\* serving a mount after the parent has exited leaves that state only when
\* mount() returns; and a write to the channel whose read end is gone lets
\* the daemon go on as usual (to serving from the callback, to exit(1) from
\* the end of the loop) with nothing added to the channel.
C17_DaemonIndependentOfParent ==
    /\ [][(ppc # "exited" /\ ppc' = "exited")
            => UNCHANGED <<daemonVars, rdD, wrD, written>>]_vars
    /\ [][(dpc = "serving" /\ ppc = "exited" /\ mountRet' = mountRet)
            => dpc' = "serving"]_vars
    /\ [][(ReadEndGone /\ dpc = "mounting" /\ dpc' # dpc /\ mountRet' = mountRet)
            => (dpc' = "serving" /\ daemonExit' = -1 /\ written' = written)]_vars
    /\ [][(ReadEndGone /\ dpc = "loop" /\ idx > Len(paths) /\ dpc' # dpc)
            => (dpc' = "exited" /\ daemonExit' = 1 /\ written' = written)]_vars

\* C17 witness: the parent exited with 0 after the first mount attached;
\* that mount failed later, and the second mount's callback wrote to the
\* channel without reader; the daemon is serving the second mount.
C17_Witness ==
    /\ ParentReported /\ parentExit = 0
    /\ ReadEndGone
    /\ Len(mounts) = 2
    /\ dpc = "serving"
    /\ written = <<ReadyByte>>
    /\ daemonExit = -1

\* C18: the parent has released its write end before it reads, so only the
\* daemon holds one; and in every run where the daemon has written a byte
\* or has terminated while the parent waits, the parent's read eventually
\* completes and the parent terminates.
C18_ParentReadCompletes ==
    /\ [](ppc = "read" => ~wrP)
    /\ (ParentWaiting /\ (written # <<>> \/ dpc \in {"exited", "aborted"}))
          ~> (ParentReported /\ nread \in {0, 1} /\ parentExit # -1)

\* C18 witness: the daemon ended without writing and the parent's read
\* completed on end of file.
C18_Witness ==
    /\ dpc = "aborted"
    /\ written = <<>>
    /\ ParentReported /\ nread = 0

\* The daemon is inside an external call: opening the next candidate, or
\* in mount() before or after the callback.
InExternalCall ==
    \/ dpc = "loop" /\ idx <= Len(paths)
    \/ dpc \in {"mounting", "serving"}

\* C19: for every candidate list, if every external open and mount call
\* returns (the daemon is again and again outside of an external call),
\* a spawned daemon eventually terminates by process exit with code 0 or 1;
\* so a daemon that never terminates stays blocked in an external call.
C19_DaemonTerminates ==
    ([]<>~InExternalCall) =>
        (DaemonSpawned ~> (DaemonExited /\ daemonExit \in {0, 1}))

\* C19 witness: the daemon went through two candidates, each of which was
\* opened and mounted and whose mount returned an error, and exited with 1.
C19_Witness ==
    /\ Len(paths) = 2
    /\ attempts = paths
    /\ mounts = paths
    /\ mountRet = "Err"
    /\ DaemonExited /\ daemonExit = 1

====
